---- MODULE Spec2Model ----
(***************************************************************************)
(* Model of ve.dm.MWTemplateSpecModel: the per-invocation template         *)
(* specification that passively merges TemplateData documentation          *)
(* (extend) with the parameters observed in the invocation                 *)
(* (fillFromTemplate).                                                     *)
(*                                                                         *)
(* JavaScript objects are modelled with their observable structure:        *)
(*   - a plain object used as a map is a sequence of [key, ref/val]        *)
(*     records in insertion order; enumeration (for-in, Object.keys)       *)
(*     follows OrdinaryOwnPropertyKeys: integer-like keys ascending,       *)
(*     then the other keys in insertion order;                             *)
(*   - parameter entries live in a heap and this.params holds references,  *)
(*     so that aliases share one entry object;                             *)
(*   - a JavaScript value is a record [t, s, a]: its type tag, its scalar  *)
(*     text and its array items.                                           *)
(*                                                                         *)
(* The module also models the widgets built on that specification, each    *)
(* under a specification of its own:                                       *)
(*   - SpecOutline: ve.ui.MWTransclusionOutlineParameterSelectWidget and   *)
(*     its ve.ui.MWTransclusionOutlineParameterWidget items;               *)
(*   - SpecDialog: ve.ui.MWTemplateDialog;                                 *)
(*   - SpecAddParameter: the input handler of ve.ui.MWAddParameterPage.    *)
(* A specification leaves the variables of the other components at rest.   *)
(***************************************************************************)
EXTENDS Integers, Sequences, FiniteSets, TLC

VARIABLES
    tparams,        \* the template's parameters object: keys in insertion order
    params,         \* this.params: sequence of [key, val] in insertion order, val a heap ref
    heap,           \* the parameter entry objects, ref = index
    canonicalOrder, \* this.canonicalOrder
    description,    \* this.description
    sets,           \* this.sets
    maps,           \* this.maps
    extends,        \* number of extend calls made so far (bounded)
    documented,     \* the names extend was given, as a key of data.params or an alias
    last            \* the last operation, whether it raised, and the entry fields
                    \* its payload gave a value for: [op, threw, given]

\* ve.ui.MWTransclusionOutlineParameterSelectWidget
VARIABLES
    items,          \* the parameter widgets: [data, disabled, checked, selected]
    highlighted,    \* index of the highlighted item, 0 for none
    emitted,        \* the events the select widget emitted in the last handler
    wlast           \* the last handler and the item it was about: [op, item, was]

\* ve.ui.MWAddParameterPage and the parameters of its template
VARIABLES
    tvalues,        \* the parameter objects of the template, by name: [id, value]
    pcreated,       \* number of parameter objects created so far
    plast           \* the last operation on the page: [op, text, name]

\* ve.ui.MWTemplateDialog, its transclusion model and its booklet layout
VARIABLES
    useNewSidebar,      \* this.useNewSidebar
    session,            \* "closed", "loading" (set up, not yet loaded) or "ready"
    loaded,             \* this.loaded
    altered,            \* this.altered
    preventReselection, \* this.preventReselection
    parts,              \* this.transclusionModel.getParts()
    pages,              \* the pages of this.bookletLayout, in order: [name, kind]
    currentPage,        \* the name of the active page of the booklet, <<>> for none
    done,               \* the ability of the 'done' action
    act,                \* the process of the 'done' action: [state, promise, confirm,
                        \* confirms, written, closed]
    dlast               \* the last handler: [op, statusRan, focusCalls, placeholders, first]

specVars == <<tparams, params, heap, canonicalOrder, description, sets, maps, extends,
              documented, last>>
outlineVars == <<items, highlighted, emitted, wlast>>
pageVars == <<tvalues, pcreated, plast>>
dialogVars == <<useNewSidebar, session, loaded, altered, preventReselection, parts, pages,
                currentPage, done, act, dlast>>
vars == <<specVars, outlineVars, pageVars, dialogVars>>

(***************************************************************************)
(* Bounds                                                                  *)
(***************************************************************************)
MaxTemplateParams == 1
MaxExtends == 2
MaxItems == 2
MaxParts == 1

(***************************************************************************)
(* JavaScript values                                                       *)
(***************************************************************************)
Undefined == [t |-> "undefined", s |-> "", a |-> <<>>]
Null == [t |-> "null", s |-> "", a |-> <<>>]
Str(x) == [t |-> "string", s |-> x, a |-> <<>>]
Bool(b) == [t |-> "boolean", s |-> IF b THEN "true" ELSE "false", a |-> <<>>]
Arr(q) == [t |-> "array", s |-> "", a |-> q]
Obj(tag) == [t |-> "object", s |-> tag, a |-> <<>>]

\* JavaScript truthiness of a value
Truthy(v) ==
    \/ v.t \in {"array", "object"}
    \/ v.t = "string" /\ v.s # ""
    \/ v.t = "boolean" /\ v.s = "true"

Range(q) == {q[i] : i \in 1..Len(q)}

\* The sequences without repetition over S of length at most n
DistinctSeqs(S, n) ==
    {q \in UNION {[1..k -> S] : k \in 0..n} :
        \A i, j \in 1..Len(q) : i # j => q[i] # q[j]}

(***************************************************************************)
(* JavaScript objects used as maps                                         *)
(***************************************************************************)
\* The value of an integer-like property key, -1 for any other key
ArrayIndexValue(k) ==
    CASE k = "0" -> 0
      [] k = "1" -> 1
      [] k = "2" -> 2
      [] k = "3" -> 3
      [] OTHER -> -1

RECURSIVE SortByIndex(_)
SortByIndex(S) ==
    IF S = {} THEN <<>>
    ELSE LET m == CHOOSE k \in S : \A j \in S : ArrayIndexValue(k) <= ArrayIndexValue(j)
         IN <<m>> \o SortByIndex(S \ {m})

IsIndexKey(k) == ArrayIndexValue(k) >= 0
IsNamedKey(k) == ArrayIndexValue(k) < 0

\* Enumeration order of an object whose keys were inserted in the order ins:
\* integer-like keys in ascending order, then the others in insertion order
OwnKeys(ins) ==
    SortByIndex({k \in Range(ins) : IsIndexKey(k)}) \o SelectSeq(ins, IsNamedKey)

\* obj is a sequence of [key, val] records
Keys(obj) == [i \in 1..Len(obj) |-> obj[i].key]
Has(obj, k) == \E i \in 1..Len(obj) : obj[i].key = k
Get(obj, k) == obj[CHOOSE i \in 1..Len(obj) : obj[i].key = k].val
\* obj[k] = r: an existing key keeps its position, a new key is appended
Put(obj, k, r) ==
    IF Has(obj, k)
    THEN [i \in 1..Len(obj) |-> IF obj[i].key = k THEN [key |-> k, val |-> r] ELSE obj[i]]
    ELSE Append(obj, [key |-> k, val |-> r])

(***************************************************************************)
(* Parameter entries                                                       *)
(***************************************************************************)
\* The fields a TemplateData parameter specification may carry
SpecFields == {"label", "description", "default", "type", "aliases",
               "required", "suggested", "deprecated"}

\* A default entry that marks the parameter as suggested
getDefaultParameterSpec_Suggested(name) ==
    [label |-> Str(name), description |-> Null, default |-> Str(""),
     type |-> Str("string"), aliases |-> Arr(<<>>), name |-> Str(name),
     required |-> Bool(FALSE), suggested |-> Bool(TRUE), deprecated |-> Bool(FALSE)]

getDefaultParameterSpec(name) ==
    [ label |-> Str(name),
      description |-> Null,
      default |-> Str(""),
      type |-> Str("string"),
      aliases |-> Arr(<<>>),
      name |-> Str(name),
      required |-> Bool(FALSE),
      suggested |-> Bool(FALSE),
      deprecated |-> Bool(FALSE) ]

\* Deep extend of an array: the items of copy overwrite those of clone by index
MergeArray(clone, copy) ==
    [i \in 1..(IF Len(clone) > Len(copy) THEN Len(clone) ELSE Len(copy)) |->
        IF i <= Len(copy) THEN copy[i] ELSE clone[i]]

\* One property of the deep extend: arrays are merged, undefined is skipped,
\* every other value (null included) is assigned
ExtendProperty(src, copy) ==
    IF copy.t = "array"
    THEN Arr(MergeArray(IF src.t = "array" THEN src.a ELSE <<>>, copy.a))
    ELSE IF copy.t # "undefined" THEN copy
    ELSE src

\* Mutant of extendObject: the entry is rebuilt from the defaults and the
\* given specification, so fields set earlier are lost
extendObject_FromDefaults(target, options) ==
    [f \in DOMAIN target |->
        IF f \in DOMAIN options
        THEN ExtendProperty(getDefaultParameterSpec(target.name.s)[f], options[f])
        ELSE target[f]]

\* ve.extendObject( true, target, options )
extendObject(target, options) ==
    [f \in DOMAIN target |->
        IF f \in DOMAIN options THEN ExtendProperty(target[f], options[f]) ELSE target[f]]

(***************************************************************************)
(* ve.dm.MWTemplateSpecModel methods, as functions of the object's state   *)
(***************************************************************************)
\* this.params[ key ] = this.getDefaultParameterSpec( key ) with a new object
NewEntry(ps, hp, key) ==
    [params |-> Put(ps, key, Len(hp) + 1),
     heap |-> Append(hp, getDefaultParameterSpec(key))]

\* Mutant of FillKey: the default entry is built but never stored
FillKey_NoStore(ps, hp, key) == [params |-> ps, heap |-> hp]

\* Mutant of FillKey: the test for an existing entry is missing
FillKey_NoGuard(ps, hp, key) ==
    IF key # "" THEN NewEntry(ps, hp, key) ELSE [params |-> ps, heap |-> hp]

\* Mutant of FillKey: an existing entry is reset to the defaults in place
FillKey_Reset(ps, hp, key) ==
    IF key = "" THEN [params |-> ps, heap |-> hp]
    ELSE IF Has(ps, key)
    THEN [params |-> ps,
          heap |-> [hp EXCEPT ![Get(ps, key)] = getDefaultParameterSpec(key)]]
    ELSE NewEntry(ps, hp, key)

\* The body of the loop of fillFromTemplate for one key
FillKey(ps, hp, key) ==
    IF key # "" /\ ~Has(ps, key)
    THEN NewEntry(ps, hp, key)
    ELSE [params |-> ps, heap |-> hp]

RECURSIVE FillLoop(_, _, _)
FillLoop(keys, ps, hp) ==
    IF keys = <<>> THEN [params |-> ps, heap |-> hp]
    ELSE LET st == FillKey(ps, hp, Head(keys))
         IN FillLoop(Tail(keys), st.params, st.heap)

\* fillFromTemplate: for ( var key in this.template.getParameters() )
fillFromTemplate(tp, ps, hp) == FillLoop(OwnKeys(tp), ps, hp)

\* this.params[ param.aliases[ i ] ] = param, for every alias
RECURSIVE AddAliases(_, _, _)
AddAliases(ps, aliases, r) ==
    IF aliases = <<>> THEN ps
    ELSE AddAliases(Put(ps, Head(aliases), r), Tail(aliases), r)

\* The loop over data.params of extend; reading .length of a null
\* param.aliases raises a TypeError that ends the call
RECURSIVE ExtendLoop(_, _, _)
ExtendLoop(keys, dp, st) ==
    IF keys = <<>> \/ st.threw THEN st
    ELSE LET key == Head(keys)
             pre == IF Has(st.params, key)
                    THEN [params |-> st.params, heap |-> st.heap]
                    ELSE NewEntry(st.params, st.heap, key)
             r == Get(pre.params, key)
             param == extendObject(pre.heap[r], Get(dp, key))
             hp == [pre.heap EXCEPT ![r] = param]
         IN IF param.aliases.t # "array"
            THEN [params |-> pre.params, heap |-> hp, threw |-> TRUE]
            ELSE ExtendLoop(Tail(keys), dp,
                    [params |-> AddAliases(pre.params, param.aliases.a, r),
                     heap |-> hp, threw |-> FALSE])

\* this.description after extend( data )
ExtendDescription(old, data) ==
    IF data.description # Null THEN data.description ELSE old

\* this.canonicalOrder after extend( data ), when data.params is given
ExtendCanonicalOrder(data) ==
    IF data.paramOrder.t = "array"
    THEN data.paramOrder.a
    ELSE OwnKeys(Keys(data.params.props))

\* this.sets after extend( data )
ExtendSets(old, data) == data.sets

\* this.maps after extend( data )
ExtendMaps(old, data) == IF Truthy(data.maps) THEN data.maps ELSE old

(***************************************************************************)
(* Accessors on the current state                                          *)
(***************************************************************************)
isKnownParameterOrAlias(name) == Has(params, name)
Entry(name) == heap[Get(params, name)]
isParameterAlias(name) == Has(params, name) /\ Entry(name).name # Str(name)
getPrimaryParameterName(name) == Entry(name).name.s
getParameterAliases(name) == Entry(name).aliases
isParameterRequired(name) == Truthy(Entry(name).required)
isParameterSuggested(name) == Truthy(Entry(name).suggested)
isParameterDeprecated(name) == Entry(name).deprecated # Bool(FALSE)
\* static.getLocalValue: an object of translations yields one of its texts,
\* anything else is returned as it is
getLocalValue(v) == IF Truthy(v) /\ v.t \in {"object", "array"} THEN Str(v.s) ELSE v
getParameterLabel(name) ==
    getLocalValue(IF Truthy(Entry(name).label) THEN Entry(name).label ELSE Str(name))
getParameterDescription(name) == getLocalValue(Entry(name).description)
getParameterDefaultValue(name) ==
    IF Has(params, name) THEN Entry(name).default ELSE Str("")
getParameterType(name) == Entry(name).type
getParameterDeprecationDescription(name) ==
    IF Entry(name).deprecated.t = "string" THEN Entry(name).deprecated ELSE Str("")
getDescription == IF Truthy(description) THEN description ELSE Null
getCanonicalParameterOrder == canonicalOrder
getParameterSets == IF Truthy(sets) THEN sets ELSE Arr(<<>>)
getMaps == IF Truthy(maps) THEN maps ELSE Obj("{}")

IsPrimaryKey(name) == Entry(name).name = Str(name)
getParameterNames == SelectSeq(OwnKeys(Keys(params)), IsPrimaryKey)

(***************************************************************************)
(* Inputs                                                                  *)
(***************************************************************************)
\* Parameter names an invocation may use; "" is the name of a parameter
\* that has not been given a name yet
TemplateNames == {"", "1", "a"}
\* Parameter names the documentation may describe
DocNames == {"1", "a"}

EmptySpec == [f \in SpecFields |-> Undefined]
\* A parameter specification with the given fields, the others missing
PSpec(given) == [f \in SpecFields |-> IF f \in DOMAIN given THEN given[f] ELSE Undefined]

\* The alias the documentation gives the parameter documented under key
AliasOf(key) == IF key = "a" THEN "b" ELSE "a"

\* The specifications a payload may hold under key: empty, descriptive
\* fields only, an alias only, null aliases
ParamSpecSamples(key) ==
    { EmptySpec,
      PSpec([label |-> Str("L"), description |-> Str("D"), default |-> Str("v"),
             type |-> Str("number"), required |-> Bool(TRUE),
             suggested |-> Bool(TRUE), deprecated |-> Str("old")]),
      PSpec([aliases |-> Arr(<<AliasOf(key)>>)]),
      PSpec([aliases |-> Null]) }

\* data.params: missing, or an object with a specification per key
NoParams == [defined |-> FALSE, props |-> <<>>]
ParamsSamples ==
    {NoParams} \cup
    UNION { { [defined |-> TRUE,
               props |-> [i \in 1..Len(ks) |-> [key |-> ks[i], val |-> f[i]]]] :
              f \in {g \in [1..Len(ks) -> UNION {ParamSpecSamples(k) : k \in DocNames}] :
                        \A i \in 1..Len(ks) : g[i] \in ParamSpecSamples(ks[i])} } :
            ks \in DistinctSeqs(DocNames, Cardinality(DocNames)) }

\* The template-level fields of a payload: all missing, all given, all null
NoHeader ==
    [description |-> Undefined, paramOrder |-> Undefined,
     sets |-> Undefined, maps |-> Undefined]
FullHeader ==
    [description |-> Str("Desc"), paramOrder |-> Arr(<<"a", "1">>),
     sets |-> Arr(<<"set">>), maps |-> Obj("maps")]
NullHeader ==
    [description |-> Null, paramOrder |-> Null, sets |-> Null, maps |-> Null]

Data(h, p) ==
    [description |-> h.description, paramOrder |-> h.paramOrder,
     params |-> p, sets |-> h.sets, maps |-> h.maps]

\* An object documenting "a" and "1", inserted in that order, with nothing else
PlainParams ==
    [defined |-> TRUE,
     props |-> <<[key |-> "a", val |-> EmptySpec], [key |-> "1", val |-> EmptySpec]>>]

\* Payloads that document parameters only, and payloads that carry
\* template-level fields with no or plain parameters
DataSamples ==
    {Data(NoHeader, p) : p \in ParamsSamples}
        \cup {Data(h, p) : h \in {FullHeader, NullHeader}, p \in {NoParams, PlainParams}}

\* The entry fields for which some specification of data.params has a value
Given(data) ==
    {f \in SpecFields :
        \E i \in 1..Len(data.params.props) : data.params.props[i].val[f] # Undefined}

\* The names a payload documents: the keys of data.params and their aliases
Mentioned(data) ==
    UNION { {data.params.props[i].key} \cup
            (IF data.params.props[i].val.aliases.t = "array"
             THEN Range(data.params.props[i].val.aliases.a) ELSE {}) :
            i \in 1..Len(data.params.props) }

(***************************************************************************)
(* Components at rest                                                      *)
(***************************************************************************)
\* The specification model of a template without parameters
SpecIdle ==
    /\ tparams = <<>>
    /\ params = <<>>
    /\ heap = <<>>
    /\ canonicalOrder = <<>>
    /\ description = Undefined
    /\ sets = Undefined
    /\ maps = Undefined
    /\ extends = 0
    /\ documented = {}
    /\ last = [op |-> "new", threw |-> FALSE, given |-> {}]

\* No outline widget has been built
OutlineIdle ==
    /\ items = <<>>
    /\ highlighted = 0
    /\ emitted = <<>>
    /\ wlast = [op |-> "none", item |-> 0, was |-> FALSE]

\* No parameter object is tracked and no page is shown
PageIdle ==
    /\ tvalues = <<>>
    /\ pcreated = 0
    /\ plast = [op |-> "none", text |-> <<>>, name |-> ""]

\* The process of the 'done' action before the action was ever executed
NoProcess ==
    [state |-> "idle", promise |-> "none", confirm |-> "none", confirms |-> 0,
     written |-> FALSE, closed |-> FALSE]

\* A dialog as its constructor leaves it, never set up
DialogIdle ==
    /\ useNewSidebar = FALSE
    /\ session = "closed"
    /\ loaded = FALSE
    /\ altered = FALSE
    /\ preventReselection = FALSE
    /\ parts = <<>>
    /\ pages = <<>>
    /\ currentPage = <<>>
    /\ done = TRUE
    /\ act = NoProcess
    /\ dlast = [op |-> "none", statusRan |-> FALSE, focusCalls |-> 0, placeholders |-> 0,
                first |-> <<>>]

\* The variables of the widgets, at rest while the specification model runs
uiVars == <<outlineVars, pageVars, dialogVars>>
UiIdle == OutlineIdle /\ PageIdle /\ DialogIdle

\* The variables the outline leaves alone
OutlineFrame == UNCHANGED <<specVars, pageVars, dialogVars>>

(***************************************************************************)
(* The state machine of the specification model                            *)
(***************************************************************************)

\* new ve.dm.MWTemplateSpecModel( template ), for a template with some parameters
Init ==
    \E tp \in DistinctSeqs(TemplateNames, MaxTemplateParams) :
        LET st == fillFromTemplate(tp, <<>>, <<>>)
        IN /\ tparams = tp
           /\ params = st.params
           /\ heap = st.heap
           /\ canonicalOrder = <<>>
           /\ description = Undefined
           /\ sets = Undefined
           /\ maps = Undefined
           /\ extends = 0
           /\ documented = {}
           /\ last = [op |-> "new", threw |-> FALSE, given |-> {}]
           /\ UiIdle

\* A parameter is added to the template invocation
AddParameter(name) ==
    /\ Len(tparams) < MaxTemplateParams
    /\ name \notin Range(tparams)
    /\ tparams' = Append(tparams, name)
    /\ last' = [op |-> "addParameter", threw |-> FALSE, given |-> {}]
    /\ UNCHANGED <<params, heap, canonicalOrder, description, sets, maps, extends, documented>>
    /\ UNCHANGED uiVars

\* spec.fillFromTemplate()
FillFromTemplate ==
    LET st == fillFromTemplate(tparams, params, heap)
    IN /\ params' = st.params
       /\ heap' = st.heap
       /\ last' = [op |-> "fill", threw |-> FALSE, given |-> {}]
       /\ UNCHANGED <<tparams, canonicalOrder, description, sets, maps, extends, documented>>
       /\ UNCHANGED uiVars

\* spec.extend( data )
Extend(data) ==
    /\ extends < MaxExtends
    /\ extends' = extends + 1
    /\ documented' = documented \cup Mentioned(data)
    /\ description' = ExtendDescription(description, data)
    /\ IF data.params.defined
       THEN LET st == ExtendLoop(OwnKeys(Keys(data.params.props)), data.params.props,
                                 [params |-> params, heap |-> heap, threw |-> FALSE])
            IN /\ canonicalOrder' = ExtendCanonicalOrder(data)
               /\ params' = st.params
               /\ heap' = st.heap
               /\ last' = [op |-> "extend", threw |-> st.threw, given |-> Given(data)]
       ELSE /\ UNCHANGED <<canonicalOrder, params, heap>>
            /\ last' = [op |-> "extend", threw |-> FALSE, given |-> {}]
    /\ IF last'.threw
       THEN UNCHANGED <<sets, maps>>
       ELSE /\ sets' = ExtendSets(sets, data)
            /\ maps' = ExtendMaps(maps, data)
    /\ UNCHANGED tparams
    /\ UNCHANGED uiVars

Next ==
    \/ \E name \in TemplateNames : AddParameter(name)
    \/ FillFromTemplate
    \/ \E data \in DataSamples : Extend(data)

Spec == Init /\ [][Next]_vars

(***************************************************************************)
(* Properties                                                              *)
(***************************************************************************)
KnownNames == Range(Keys(params))

\* C1: every known name (primary or alias) resolves to the same entry
\* object as its primary name, so the flags and aliases read through an
\* alias equal those read through the primary name
C1_AliasSharesPrimaryEntry ==
    \A n \in KnownNames :
        /\ isKnownParameterOrAlias(getPrimaryParameterName(n))
        /\ Get(params, n) = Get(params, getPrimaryParameterName(n))
        /\ isParameterRequired(n) = isParameterRequired(getPrimaryParameterName(n))
        /\ isParameterSuggested(n) = isParameterSuggested(getPrimaryParameterName(n))
        /\ isParameterDeprecated(n) = isParameterDeprecated(getPrimaryParameterName(n))
        /\ getParameterAliases(n) = getParameterAliases(getPrimaryParameterName(n))

\* C8: extend never raises an error, whichever fields of the payload or of
\* its parameter specifications are missing or null
C8_ExtendNeverRaises == last.op = "extend" => ~last.threw

\* C9: getParameterNames() holds no alias, holds no name twice, and holds
\* the primary name of every known name
C9_ParameterNamesArePrimaries ==
    /\ \A i \in 1..Len(getParameterNames) : ~isParameterAlias(getParameterNames[i])
    /\ \A i, j \in 1..Len(getParameterNames) :
          i # j => getParameterNames[i] # getParameterNames[j]
    /\ \A n \in KnownNames : getPrimaryParameterName(n) \in Range(getParameterNames)

\* C10: getParameterNames() lists the primary names in the order in which
\* the names were first added to the spec, numeric names included
C10_ParameterNamesInOriginalOrder ==
    getParameterNames = SelectSeq(Keys(params), IsPrimaryKey)

SpecState == <<tparams, params, heap, canonicalOrder, description, sets, maps>>

\* C5: a fillFromTemplate() that directly follows a fillFromTemplate()
\* changes nothing: entries, canonical order and template-level fields
\* are those the first call left
C5_FillIdempotent ==
    [][(last.op = "fill" /\ last'.op = "fill") => SpecState' = SpecState]_vars

\* A fill has run on a spec that holds documented entries and aliases
C5_Witness ==
    /\ last.op = "fill"
    /\ extends > 0
    /\ tparams # <<>>
    /\ Len(heap) > 1
    /\ \E n \in KnownNames : isParameterAlias(n)

\* C6: fillFromTemplate() keeps every existing name bound to the same,
\* unmodified entry object (alias names included), leaves canonical order,
\* description, sets and maps unchanged, and only adds default entries for
\* template names that had none
C6_FillPassive ==
    [][last'.op = "fill" =>
        /\ \A n \in KnownNames : Has(params', n) /\ Get(params', n) = Get(params, n)
        /\ \A r \in DOMAIN heap : heap'[r] = heap[r]
        /\ <<canonicalOrder, description, sets, maps>>' =
              <<canonicalOrder, description, sets, maps>>
        /\ \A n \in Range(Keys(params')) \ KnownNames :
              /\ n \in Range(tparams)
              /\ heap'[Get(params', n)] = getDefaultParameterSpec(n)]_vars

\* A fill has run while a parameter of the template was known as an alias
\* of a documented parameter, and the alias is still in place
C6_Witness ==
    /\ last.op = "fill"
    /\ \E n \in Range(tparams) : isParameterAlias(n)

\* The canonical order the documentation asks for: the explicit list, else
\* the names of data.params in the order they were inserted
DocumentedOrder(data) ==
    IF data.paramOrder.t = "array" THEN data.paramOrder.a ELSE Keys(data.params.props)

\* C4: after extend(data) with documented parameters the canonical order
\* is data.paramOrder when that list is given, and else the names of
\* data.params in the order they were inserted
C4_CanonicalOrderAsDocumented ==
    [][last'.op = "extend" =>
        \A data \in DataSamples :
            (Extend(data) /\ data.params.defined)
                => getCanonicalParameterOrder' = DocumentedOrder(data)]_vars

Omitted(v) == v \in {Undefined, Null}

\* C7: extend(data) keeps the stored description, sets and maps when data
\* does not give them
C7_ExtendNeverDowngrades ==
    [][last'.op = "extend" =>
        \A data \in DataSamples :
            Extend(data) =>
                /\ Omitted(data.description) => getDescription' = getDescription
                /\ Omitted(data.sets) => getParameterSets' = getParameterSets
                /\ Omitted(data.maps) => getMaps' = getMaps]_vars

(***************************************************************************)
(* ve.ui.MWTransclusionOutlineParameterWidget                              *)
(*                                                                         *)
(* An item is [data, disabled, checked, selected]: the parameter name, the *)
(* disabled and selected state of its checkbox, and the selected state of  *)
(* the option widget itself.                                               *)
(***************************************************************************)
\* The checkbox the constructor creates before calling its parent
NewCheckbox(config) ==
    [disabled |-> config.required,
     selected |-> config.selected \/ config.required]

\* setSelected without the override of the state by a disabled checkbox
setSelected_AsAsked(item, state) ==
    [item EXCEPT !.checked = state, !.selected = state]

\* setSelected( state ): a disabled checkbox forces the state to true
setSelected(item, state) ==
    LET forced == state \/ item.disabled
    IN  [item EXCEPT !.checked = forced, !.selected = forced]

\* The constructor: the checkbox, then the OO.ui.OptionWidget constructor,
\* which calls setSelected( !!config.selected )
ParameterWidget(config) ==
    LET checkbox == NewCheckbox(config)
        created == [data |-> config.data,
                    disabled |-> checkbox.disabled,
                    checked |-> checkbox.selected,
                    selected |-> FALSE]
    IN  setSelected(created, config.selected)

(***************************************************************************)
(* ve.ui.MWTransclusionOutlineParameterSelectWidget                        *)
(*                                                                         *)
(* A handler yields [items, highlighted, emitted]; an emitted event is     *)
(* <<name, data>>, and <<"choose", data, selected>> for 'choose'.          *)
(***************************************************************************)
Handled(its, hl, evs) == [items |-> its, highlighted |-> hl, emitted |-> evs]

\* findItemFromData( data ): the index of the item, 0 when there is none
findItemFromData(its, data) ==
    IF \E i \in 1..Len(its) : its[i].data = data
    THEN CHOOSE i \in 1..Len(its) :
             /\ its[i].data = data
             /\ \A j \in 1..(i - 1) : its[j].data # data
    ELSE 0

\* chooseItem( item ) of a multiselect widget: a selected item is unselected,
\* any other one is selected, both through the item's setSelected
chooseItem(its, hl, i) ==
    IF i = 0
    THEN Handled(its, hl, <<>>)
    ELSE LET after == [its EXCEPT ![i] = setSelected(its[i], ~its[i].selected)]
         IN  Handled(after, hl,
                     <<  <<"select", its[i].data>>,
                         <<"choose", its[i].data, after[i].selected>>  >>)

\* markParameterAsUnused( paramName )
markParameterAsUnused(its, hl, paramName) ==
    LET i == findItemFromData(its, paramName)
    IN  IF i # 0
        THEN Handled([its EXCEPT ![i] = setSelected(its[i], FALSE)], hl, <<>>)
        ELSE Handled(its, hl, <<>>)

\* onCheckboxChange( item, value )
onCheckboxChange(its, hl, i, value) ==
    IF its[i].selected # value
    THEN chooseItem(its, hl, i)
    ELSE Handled(its, hl, <<>>)

\* OO.ui.SelectWidget's mouse handling: a left button press on an item, and
\* its release, choose the item
ParentMouseDown(its, hl, button, i) ==
    IF button = "left" THEN chooseItem(its, hl, i) ELSE Handled(its, hl, <<>>)

\* onMouseDown that always defers to the parent
onMouseDown_ParentOnly(its, hl, button, i) ==
    ParentMouseDown(its, hl, button, i)

\* onMouseDown( e ), i the item under the pointer (0 for none)
onMouseDown(its, hl, button, i) ==
    IF button = "left" /\ i # 0 /\ its[i].selected
    THEN Handled(its, hl, << <<"templateParameterClick", its[i].data>> >>)
    ELSE ParentMouseDown(its, hl, button, i)

\* OO.ui.SelectWidget's key handling: Enter chooses the highlighted item, the
\* arrows move the highlight round the items
ParentKeyDown(its, hl, key) ==
    CASE key = "enter" -> chooseItem(its, hl, hl)
      [] key = "up" /\ Len(its) > 0 ->
             Handled(its, IF hl = 0 THEN 1 ELSE IF hl = 1 THEN Len(its) ELSE hl - 1, <<>>)
      [] key = "down" /\ Len(its) > 0 ->
             Handled(its, IF hl = 0 THEN 1 ELSE IF hl = Len(its) THEN 1 ELSE hl + 1, <<>>)
      [] OTHER -> Handled(its, hl, <<>>)

\* onDocumentKeyDown( e )
onDocumentKeyDown(its, hl, key) ==
    CASE key = "home" -> ParentKeyDown(its, IF Len(its) > 0 THEN 1 ELSE hl, key)
      [] key = "end" -> ParentKeyDown(its, Len(its), key)
      [] key = "space" ->
             LET chosen == chooseItem(its, hl, hl)
                 parent == ParentKeyDown(chosen.items, chosen.highlighted, key)
             IN  Handled(parent.items, parent.highlighted, chosen.emitted \o parent.emitted)
      [] key = "enter" /\ hl # 0 /\ its[hl].selected ->
             Handled(its, hl, << <<"templateParameterClick", its[hl].data>> >>)
      [] OTHER -> ParentKeyDown(its, hl, key)

(***************************************************************************)
(* The state machine of the outline                                        *)
(***************************************************************************)
ItemName(i) == "p" \o ToString(i)
Buttons == {"left", "right"}
KeyCodes == {"home", "end", "space", "enter", "up", "down"}

\* addItems of newly created parameter widgets
InitOutline ==
    /\ SpecIdle
    /\ PageIdle
    /\ DialogIdle
    /\ \E n \in 1..MaxItems :
           \E required \in [1..n -> BOOLEAN], selected \in [1..n -> BOOLEAN] :
               items = [i \in 1..n |->
                           ParameterWidget([data |-> ItemName(i),
                                            required |-> required[i],
                                            selected |-> selected[i]])]
    /\ highlighted = 0
    /\ emitted = <<>>
    /\ wlast = [op |-> "new", item |-> 0, was |-> FALSE]

\* The outcome of a handler becomes the state
Becomes(h, op, i) ==
    /\ items' = h.items
    /\ highlighted' = h.highlighted
    /\ emitted' = h.emitted
    /\ wlast' = [op |-> op, item |-> i, was |-> IF i = 0 THEN FALSE ELSE items[i].selected]
    /\ OutlineFrame

\* item.setSelected( state ) by any caller
SetSelected(i, state) ==
    Becomes(Handled([items EXCEPT ![i] = setSelected(items[i], state)], highlighted, <<>>),
            "setSelected", i)

MarkParameterAsUnused(paramName) ==
    Becomes(markParameterAsUnused(items, highlighted, paramName),
            "markParameterAsUnused", findItemFromData(items, paramName))

\* The checkbox takes a new state and emits 'change', which the item passes
\* on to onCheckboxChange
CheckboxChange(i) ==
    LET value == ~items[i].checked
        toggled == [items EXCEPT ![i].checked = value]
    IN  Becomes(onCheckboxChange(toggled, highlighted, i, value), "checkboxChange", i)

MouseDown(button, i) ==
    Becomes(onMouseDown(items, highlighted, button, i),
            IF button = "left" THEN "click" ELSE "otherClick", i)

KeyDown(key) ==
    Becomes(onDocumentKeyDown(items, highlighted, key), key, highlighted)

NextOutline ==
    \/ \E i \in 1..Len(items), state \in BOOLEAN : SetSelected(i, state)
    \/ \E i \in 1..Len(items) : MarkParameterAsUnused(ItemName(i))
    \/ MarkParameterAsUnused("unknown")
    \/ \E i \in 1..Len(items) : CheckboxChange(i)
    \/ \E button \in Buttons, i \in 0..Len(items) : MouseDown(button, i)
    \/ \E key \in KeyCodes : KeyDown(key)

SpecOutline == InitOutline /\ [][NextOutline]_vars

\* C11: a parameter widget created as required (its checkbox is disabled)
\* is selected, and its checkbox checked, in every reachable state, whatever
\* setSelected( false ), markParameterAsUnused, Space, clicks or checkbox
\* changes have been applied to it.
C11_RequiredStaysSelected ==
    \A i \in 1..Len(items) :
        items[i].disabled => items[i].selected /\ items[i].checked

\* A required item has just been asked to become unselected
C11_Witness ==
    /\ wlast.op \in {"markParameterAsUnused", "space", "checkboxChange"}
    /\ wlast.item # 0
    /\ items[wlast.item].disabled
    /\ wlast.was

\* C12: a left click or Enter on an item that is already selected emits
\* templateParameterClick exactly once with the parameter's name, emits no
\* 'choose', and leaves the selection of every item as it was.
C12_ClickOnSelectedOnlyNotifies ==
    [][ (/\ wlast'.op \in {"click", "enter"}
         /\ wlast'.item # 0
         /\ wlast'.was)
        => /\ emitted' = << <<"templateParameterClick", items[wlast'.item].data>> >>
           /\ \A j \in 1..Len(items) :
                  /\ items'[j].selected = items[j].selected
                  /\ items'[j].checked = items[j].checked ]_vars

\* A selected item has been clicked, or Enter pressed on it
C12_Witness ==
    /\ wlast.op \in {"click", "enter"}
    /\ wlast.item # 0
    /\ wlast.was
    /\ Len(items) > 1

(***************************************************************************)
(* Parameters the documentation does not know                              *)
(***************************************************************************)
\* The specification has seen every parameter of the template: filling it
\* again would change nothing
Filled ==
    LET st == fillFromTemplate(tparams, params, heap)
    IN  st.params = params /\ st.heap = heap

\* The parameters of the template that no payload of extend has mentioned
OnlyObserved == Range(tparams) \ documented

\* The accessors return the passive defaults for name
PassiveDefaults(name) ==
    /\ Has(params, name)
    /\ getParameterLabel(name) = Str(name)
    /\ getParameterDescription(name) = Null
    /\ getParameterDefaultValue(name) = Str("")
    /\ getParameterType(name) = Str("string")
    /\ getParameterAliases(name) = Arr(<<>>)
    /\ getPrimaryParameterName(name) = name
    /\ ~isParameterRequired(name)
    /\ ~isParameterSuggested(name)
    /\ ~isParameterDeprecated(name)
    /\ getParameterDeprecationDescription(name) = Str("")

Whitespace == {" ", "\t"}

RECURSIVE TrimStart(_)
TrimStart(text) ==
    IF text # <<>> /\ Head(text) \in Whitespace THEN TrimStart(Tail(text)) ELSE text

RECURSIVE TrimEnd(_)
TrimEnd(text) ==
    IF text # <<>> /\ text[Len(text)] \in Whitespace
    THEN TrimEnd(SubSeq(text, 1, Len(text) - 1))
    ELSE text

\* The text as it was typed
trim_Kept(text) == text

\* String.prototype.trim
trim(text) == TrimEnd(TrimStart(text))

\* The string made of the characters
RECURSIVE ToName(_)
ToName(chars) == IF chars = <<>> THEN "" ELSE Head(chars) \o ToName(Tail(chars))

\* template.hasParameter( name )
hasParameter(name) == name \in Range(tparams)

\* template.addParameter( new ve.dm.MWParameterModel( template, name ) ): the
\* new object takes the place of one of the same name, and the specification
\* is filled again
addParameter(name) ==
    LET tp == IF hasParameter(name) THEN tparams ELSE Append(tparams, name)
        st == fillFromTemplate(tp, params, heap)
    IN  [tparams |-> tp,
         tvalues |-> (name :> [id |-> pcreated + 1, value |-> ""]) @@ tvalues,
         params |-> st.params,
         heap |-> st.heap]

\* onParameterInput that adds whatever non-empty name was entered
onParameterInput_Replacing(text) == ToName(trim(text))

\* onParameterInput that does not ask the specification
onParameterInput_AnyNewName(text) ==
    LET name == ToName(trim(text))
    IN  IF name = "" \/ hasParameter(name) THEN "" ELSE name

\* onParameterInput: the name of the parameter it adds for the text of the
\* input field, "" when it adds none
onParameterInput(text) ==
    LET name == ToName(trim(text))
    IN  IF name = "" \/ hasParameter(name) THEN ""
        ELSE IF isKnownParameterOrAlias(name) THEN ""
        ELSE name

InputTexts ==
    { <<>>, <<" ">>, <<"\t", " ">>, <<"a">>, <<" ", "a", " ">>, <<"1", "\t">>,
      <<" ", "b">>, <<"a", " ", "1">> }
Values == {"", "not empty"}

\* Template data that documents one parameter, with or without an alias
PageDataSamples ==
    { Data(NoHeader, [defined |-> TRUE, props |-> <<[key |-> k, val |-> v]>>]) :
        k \in DocNames, v \in {EmptySpec} }
    \cup { Data(NoHeader, [defined |-> TRUE,
                           props |-> <<[key |-> k,
                                        val |-> PSpec([aliases |-> Arr(<<AliasOf(k)>>)])]>>]) :
             k \in DocNames }

\* new ve.ui.MWAddParameterPage( parameter ) for a template without parameters
InitPage ==
    /\ SpecIdle
    /\ OutlineIdle
    /\ DialogIdle
    /\ tvalues = <<>>
    /\ pcreated = 0
    /\ plast = [op |-> "new", text |-> <<>>, name |-> ""]

\* page.paramInputField.setValue( text ); page.onParameterInput()
OnParameterInput(text) ==
    LET name == onParameterInput(text)
        st == addParameter(name)
    IN  /\ plast' = [op |-> "input", text |-> text, name |-> name]
        /\ IF name = ""
           THEN UNCHANGED <<tparams, tvalues, pcreated, params, heap, last>>
           ELSE /\ hasParameter(name) \/ Len(tparams) < MaxTemplateParams
                /\ tparams' = st.tparams
                /\ tvalues' = st.tvalues
                /\ params' = st.params
                /\ heap' = st.heap
                /\ pcreated' = pcreated + 1
                /\ last' = [op |-> "fill", threw |-> FALSE, given |-> {}]
        /\ UNCHANGED <<canonicalOrder, description, sets, maps, extends, documented>>
        /\ UNCHANGED <<outlineVars, dialogVars>>

\* template.getParameter( name ).setValue( value )
SetValue(name, value) ==
    /\ hasParameter(name)
    /\ tvalues' = [tvalues EXCEPT ![name].value = value]
    /\ plast' = [op |-> "setValue", text |-> <<>>, name |-> name]
    /\ UNCHANGED <<pcreated, specVars, outlineVars, dialogVars>>

\* template.getSpec().extend( data )
ApplyTemplateData(data) ==
    /\ Extend(data)
    /\ ~last'.threw

NextPage ==
    \/ \E text \in InputTexts : OnParameterInput(text)
    \/ \E name \in Range(tparams), value \in Values : SetValue(name, value)
    \/ \E data \in PageDataSamples : ApplyTemplateData(data)

SpecAddParameter == InitPage /\ [][NextPage]_vars

\* The text between the first and the last character that is not whitespace
Core(text) ==
    LET solid == {i \in 1..Len(text) : text[i] \notin Whitespace}
    IN  IF solid = {} THEN <<>>
        ELSE SubSeq(text,
                    CHOOSE i \in solid : \A j \in solid : i <= j,
                    CHOOSE i \in solid : \A j \in solid : i >= j)

\* The name that was entered in the last input
Entered == ToName(Core(plast.text))

\* C15: onParameterInput trims the entered name before use: an empty or
\* whitespace-only input adds no parameter and leaves the template's
\* parameters as they were, and any other input with surrounding whitespace
\* adds the parameter named by the trimmed text, and no other.
C15_InputIsTrimmed ==
    [][ plast'.op = "input" =>
          LET name == ToName(Core(plast'.text))
          IN  /\ name = "" => tparams' = tparams /\ tvalues' = tvalues
              /\ name # "" => Range(tparams') \subseteq Range(tparams) \cup {name}
              /\ (name # "" /\ name \notin documented) => name \in Range(tparams') ]_vars

\* An input with surrounding whitespace has added a parameter
C15_Witness ==
    /\ plast.op = "input"
    /\ Core(plast.text) # plast.text
    /\ plast.name = Entered
    /\ Entered \in Range(tparams)

\* C16: entering the name of a parameter the template already has does not
\* replace it: the parameter object and its value stay as they were.
C16_ExistingParameterKept ==
    [][ (plast'.op = "input" /\ hasParameter(ToName(Core(plast'.text))))
          => tparams' = tparams /\ tvalues' = tvalues ]_vars

\* The name of a parameter with a value has been entered again
C16_Witness ==
    /\ plast.op = "input"
    /\ plast.name = ""
    /\ hasParameter(Entered)
    /\ tvalues[Entered].value = "not empty"

\* C17: entering a name the specification documents, after template data
\* with that parameter was applied, does not add the parameter.
C17_DocumentedNotAdded ==
    [][ (/\ plast'.op = "input"
         /\ ToName(Core(plast'.text)) \in documented
         /\ ~hasParameter(ToName(Core(plast'.text))))
          => tparams' = tparams /\ tvalues' = tvalues ]_vars

\* A documented name that the template does not use has been entered
C17_Witness ==
    /\ plast.op = "input"
    /\ Entered \in documented
    /\ ~hasParameter(Entered)

(***************************************************************************)
(* ve.ui.MWTemplateDialog: the transclusion model it listens to            *)
(*                                                                         *)
(* A part is [id, kind, params, documented]: kind is "template" or         *)
(* "placeholder", params the parameters of a template in the order they    *)
(* were added, each [name, blank], and documented the names the template's *)
(* documentation prompts for, all of them required.  The page of a part is *)
(* named <<id>> and the page of a parameter <<id, name>>.                  *)
(***************************************************************************)
NoPart == [id |-> 0, kind |-> "none", params |-> <<>>, documented |-> {}]
Placeholder(id) == [NoPart EXCEPT !.id = id, !.kind = "placeholder"]
Template(id, shape) ==
    [id |-> id, kind |-> "template",
     params |-> [i \in 1..Len(shape.params) |-> [name |-> shape.params[i], blank |-> FALSE]],
     documented |-> shape.documented]

\* part.getId(), param.getId()
PartPage(id) == <<id>>
ParamPage(id, name) == <<id, name>>

\* The part with the id, NoPart when the model has none
PartById(ps, id) ==
    IF \E i \in 1..Len(ps) : ps[i].id = id
    THEN ps[CHOOSE i \in 1..Len(ps) : ps[i].id = id]
    ELSE NoPart

ParamNames(part) == [i \in 1..Len(part.params) |-> part.params[i].name]

\* template.getOrderedParameterNames(): documented names, then the others,
\* the placeholder parameter '' last
getOrderedParameterNames(part) ==
    SelectSeq(ParamNames(part), LAMBDA n : n \in part.documented)
        \o SelectSeq(ParamNames(part), LAMBDA n : n \notin part.documented /\ n # "")
        \o SelectSeq(ParamNames(part), LAMBDA n : n = "")

\* The names template.addPromptedParameters() adds, in documented order
DocOrder == <<"r">>
PromptedNames(part) ==
    SelectSeq(DocOrder, LAMBDA n : n \in part.documented /\ n \notin Range(ParamNames(part)))

\* parameter.isRequired()
isRequired(part, name) == name \in part.documented

\* template.addParameter( param ) and template.removeParameter( param ), as
\* far as the parts are concerned
WithParameter(ps, id, name) ==
    [i \in 1..Len(ps) |->
        IF ps[i].id = id
        THEN [ps[i] EXCEPT !.params =
                 SelectSeq(@, LAMBDA q : q.name # name) \o <<[name |-> name, blank |-> TRUE]>>]
        ELSE ps[i]]
WithoutParameter(ps, id, name) ==
    [i \in 1..Len(ps) |->
        IF ps[i].id = id
        THEN [ps[i] EXCEPT !.params = SelectSeq(@, LAMBDA q : q.name # name)]
        ELSE ps[i]]

\* The parts and parameters of the model as one list of page names
RECURSIVE Flattened(_)
Flattened(ps) ==
    IF ps = <<>> THEN <<>>
    ELSE LET names == getOrderedParameterNames(Head(ps))
         IN  <<PartPage(Head(ps).id)>>
                 \o [i \in 1..Len(names) |-> ParamPage(Head(ps).id, names[i])]
                 \o Flattened(Tail(ps))

\* transclusionModel.getIndex( model ): the position in that list, from 0
getIndex(ps, name) ==
    LET flat == Flattened(ps)
    IN  IF \E i \in 1..Len(flat) : flat[i] = name
        THEN (CHOOSE i \in 1..Len(flat) : flat[i] = name) - 1
        ELSE -1

(***************************************************************************)
(* OO.ui.BookletLayout as the dialog uses it (continuous, not outlined)    *)
(***************************************************************************)
\* The position of the page with the name, 0 when there is none
PageIndex(pgs, name) ==
    IF \E i \in 1..Len(pgs) : pgs[i].name = name
    THEN CHOOSE i \in 1..Len(pgs) : pgs[i].name = name
    ELSE 0

\* addPages( [ page ], index ): a page of the same name is replaced
addPages(pgs, page, index) ==
    LET old == PageIndex(pgs, page.name)
        at == IF old # 0 /\ old < index THEN index - 1 ELSE index
        rest == SelectSeq(pgs, LAMBDA q : q.name # page.name)
        pos == IF at < 0 \/ at > Len(rest) THEN Len(rest) ELSE at
    IN  SubSeq(rest, 1, pos) \o <<page>> \o SubSeq(rest, pos + 1, Len(rest))

\* findClosestPage( page ) of a booklet that is not outlined: the name of
\* the previous page, else of the next one, <<>> when there is neither
findClosestPage(pgs, name) ==
    LET i == PageIndex(pgs, name)
    IN  IF i = 0 THEN <<>>
        ELSE IF i > 1 THEN pgs[i - 1].name
        ELSE IF i < Len(pgs) THEN pgs[i + 1].name
        ELSE <<>>

(***************************************************************************)
(* ve.ui.MWTemplateDialog: the handlers                                    *)
(*                                                                         *)
(* A handler maps the dialog d = [loaded, altered, preventReselection,     *)
(* parts, pages, currentPage, done, statusRan, focusCalls, placeholders,   *)
(* first] to the dialog it leaves; parts holds the model as it is when the *)
(* event is emitted.  The last four fields are a record of the handler:    *)
(* whether setApplicableStatus ran, the calls of focusPart, the            *)
(* placeholder parameters added, and the page of the first parameter the   *)
(* added template came with.                                               *)
(***************************************************************************)
\* bookletLayout.removePages( pages ): the active page is no page any more
removePages(d, names) ==
    [d EXCEPT !.pages = SelectSeq(@, LAMBDA q : q.name \notin names),
              !.currentPage = IF @ \in names THEN <<>> ELSE @]

\* focusPart( pageName ): bookletLayout.setPage( pageName )
focusPart(d, name) ==
    [d EXCEPT !.currentPage = IF PageIndex(d.pages, name) # 0 THEN name ELSE @,
              !.focusCalls = @ + 1]

\* setApplicableStatus()
setApplicableStatus(d) ==
    LET startsWithPlaceholder == Len(d.parts) > 0 /\ d.parts[1].kind = "placeholder"
        canSave == ~startsWithPlaceholder
    IN  [d EXCEPT !.done = canSave /\ d.altered, !.statusRan = TRUE]

\* onTransclusionModelChange()
onTransclusionModelChange(d) ==
    IF d.loaded THEN setApplicableStatus([d EXCEPT !.altered = TRUE]) ELSE d

\* The page onAddParameter creates for a parameter
ParameterPageKind(name) ==
    IF name # "" THEN "MWParameterPage"
    ELSE IF useNewSidebar THEN "MWAddParameterPage"
    ELSE "MWParameterPlaceholderPage"

\* onAddParameter that marks the dialog altered while it is still loading
onAddParameter_Always(d, id, name) ==
    LET page == [name |-> ParamPage(id, name), kind |-> ParameterPageKind(name)]
        Shown(shown) == setApplicableStatus([shown EXCEPT !.altered = TRUE])
    IN  Shown([d EXCEPT !.pages = addPages(@, page, getIndex(d.parts, page.name))])

\* onAddParameter that focuses the page whatever preventReselection says
onAddParameter_Unprevented(d, id, name) ==
    LET page == [name |-> ParamPage(id, name), kind |-> ParameterPageKind(name)]
        Shown(shown) ==
            IF shown.loaded
            THEN setApplicableStatus([focusPart(shown, page.name) EXCEPT !.altered = TRUE])
            ELSE shown
    IN  Shown([d EXCEPT !.pages = addPages(@, page, getIndex(d.parts, page.name))])

\* onAddParameter( param ), param the parameter name of the template id
onAddParameter(d, id, name) ==
    LET page == [name |-> ParamPage(id, name), kind |-> ParameterPageKind(name)]
        Shown(shown) ==
            IF shown.loaded
            THEN setApplicableStatus(
                     [(IF ~shown.preventReselection THEN focusPart(shown, page.name) ELSE shown)
                         EXCEPT !.altered = TRUE])
            ELSE shown
    IN  Shown([d EXCEPT !.pages = addPages(@, page, getIndex(d.parts, page.name))])

\* onRemoveParameter( param )
onRemoveParameter(d, id, name) ==
    LET reselect == findClosestPage(d.pages, ParamPage(id, name))
        Removed(removed) ==
            IF removed.loaded
            THEN setApplicableStatus([removed EXCEPT !.altered = TRUE])
            ELSE removed
    IN  Removed(removePages(IF d.loaded /\ ~d.preventReselection
                            THEN focusPart(d, reselect)
                            ELSE d,
                            {ParamPage(id, name)}))

\* The template adds the parameters and emits 'add' for each of them
RECURSIVE AddParameters(_, _, _)
AddParameters(d, id, names) ==
    IF names = <<>> THEN d
    ELSE AddParameters(
             onAddParameter([d EXCEPT !.parts = WithParameter(@, id, Head(names))],
                            id, Head(names)),
             id, Tail(names))

\* The pages of the parameters a template has already
RECURSIVE ShowParameters(_, _, _)
ShowParameters(d, id, names) ==
    IF names = <<>> THEN d
    ELSE ShowParameters(onAddParameter(d, id, Head(names)), id, Tail(names))

\* template.addPromptedParameters() of a template the dialog listens to
addPromptedParameters(d, id) ==
    AddParameters(d, id, PromptedNames(PartById(d.parts, id)))

\* page.addPlaceholderParameter()
addPlaceholderParameter(d, id) ==
    AddParameters([d EXCEPT !.placeholders = @ + 1], id, <<"">>)

\* onReplacePart that leaves the parameter pages of the removed part
ReplaceRemoved_PartPageOnly(d, removed) ==
    IF removed = NoPart THEN [d |-> d, reselect |-> <<>>]
    ELSE [d |-> removePages(d, {PartPage(removed.id)}), reselect |-> <<>>]

\* onReplacePart, first half: the pages of the removed part go, and the page
\* closest to its page is to be selected if that page was active
ReplaceRemoved(d, removed) ==
    IF removed = NoPart THEN [d |-> d, reselect |-> <<>>]
    ELSE LET partPage == PartPage(removed.id)
             paramPages == {ParamPage(removed.id, n) : n \in Range(ParamNames(removed))}
             active == d.loaded /\ ~d.preventReselection /\ d.currentPage = partPage
         IN  [d |-> removePages(d, paramPages \cup {partPage}),
              reselect |-> IF active THEN findClosestPage(d.pages, partPage) ELSE <<>>]

\* onReplacePart that keeps the page to select when the template has parameters
Reselect_Kept(added, names, toAdded) == toAdded

\* onReplacePart: the page to select once the parameters of the added
\* template are shown, the first of them when there are any
Reselect(added, names, toAdded) ==
    IF names # <<>> THEN ParamPage(added.id, names[1]) ELSE toAdded

\* onReplacePart, second half: the page of the added part, of its parameters
\* and of the parameters it prompts for, and a placeholder parameter
ReplaceAdded(d, added, reselect) ==
    IF added = NoPart THEN [d |-> d, reselect |-> reselect]
    ELSE
    LET page == [name |-> PartPage(added.id),
                 kind |-> IF added.kind = "template" THEN "MWTemplatePage"
                          ELSE "MWTemplatePlaceholderPage"]
        toAdded == IF reselect # <<>> THEN page.name ELSE reselect
        names == getOrderedParameterNames(added)
        Undocumented(e) == {n \in Range(ParamNames(PartById(e.parts, added.id))) :
                               n \notin added.documented /\ n # ""}
        NewSidebar(e) ==
            IF useNewSidebar /\ (added.documented = {} \/ Undocumented(e) # {})
            THEN addPlaceholderParameter(e, added.id)
            ELSE e
        OldSidebar(e, shouldAddPlaceholder) ==
            NewSidebar(IF names = <<>> /\ shouldAddPlaceholder /\ ~useNewSidebar
                       THEN addPlaceholderParameter(e, added.id)
                       ELSE e)
        Prompted(e) ==
            OldSidebar([(IF e.loaded THEN addPromptedParameters(e, added.id) ELSE e)
                           EXCEPT !.preventReselection = FALSE],
                       e.loaded /\ PromptedNames(added) = <<>>)
        Shown(e) ==
            IF added.kind # "template" THEN [d |-> e, reselect |-> toAdded]
            ELSE [d |-> Prompted(ShowParameters([e EXCEPT !.preventReselection = TRUE],
                                                added.id, names)),
                  reselect |-> Reselect(added, names, toAdded)]
    IN  Shown([d EXCEPT !.pages = addPages(@, page, getIndex(d.parts, page.name))])

\* onReplacePart( removed, added )
onReplacePart(d, removed, added) ==
    LET Marked(e) ==
            setApplicableStatus(IF e.loaded /\ (added # NoPart \/ removed # NoPart)
                                THEN [e EXCEPT !.altered = TRUE]
                                ELSE e)
        Focused(come) ==
            Marked(IF come.reselect # <<>> THEN focusPart(come.d, come.reselect) ELSE come.d)
        Added(gone) == Focused(ReplaceAdded(gone.d, added, gone.reselect))
    IN  Added(ReplaceRemoved(d, removed))

\* checkRequiredParameters: the parameter pages of required parameters whose
\* value input is empty
BlankRequired(pgs, ps) ==
    {i \in 1..Len(pgs) :
        /\ pgs[i].kind = "MWParameterPage"
        /\ LET part == PartById(ps, pgs[i].name[1])
           IN  /\ isRequired(part, pgs[i].name[2])
               /\ \E k \in 1..Len(part.params) :
                      part.params[k].name = pgs[i].name[2] /\ part.params[k].blank}

\* transclusionModel.addPromptedParameters(): every template adds its own
RECURSIVE PromptAll(_, _)
PromptAll(d, ids) ==
    IF ids = <<>> THEN d
    ELSE PromptAll(IF PartById(d.parts, Head(ids)).kind = "template"
                   THEN addPromptedParameters(d, Head(ids))
                   ELSE d,
                   Tail(ids))

(***************************************************************************)
(* The state machine of the dialog                                         *)
(***************************************************************************)
\* The parameters a template is created with and the names its
\* documentation prompts for
TemplateShapes ==
    { [params |-> <<>>, documented |-> {}],
      [params |-> <<>>, documented |-> {"r"}],
      [params |-> <<"x">>, documented |-> {}],
      [params |-> <<"x">>, documented |-> {"r"}],
      [params |-> <<"x", "r">>, documented |-> {"r"}] }
\* The parameters the user adds: a documented one, and the placeholder ''
ParameterNames == {"r", ""}

\* The data the confirmation is closed with: an action, or none at all
NoData == [given |-> FALSE, action |-> ""]
ClosingData == {[given |-> TRUE, action |-> "ok"], [given |-> TRUE, action |-> "reject"], NoData}

\* The dialog as the handlers see it
Dialog ==
    [loaded |-> loaded, altered |-> altered, preventReselection |-> preventReselection,
     parts |-> parts, pages |-> pages, currentPage |-> currentPage, done |-> done,
     statusRan |-> FALSE, focusCalls |-> 0, placeholders |-> 0, first |-> <<>>]

\* The dialog a handler leaves becomes the state
Leaves(d, op) ==
    /\ loaded' = d.loaded
    /\ altered' = d.altered
    /\ preventReselection' = d.preventReselection
    /\ parts' = d.parts
    /\ pages' = d.pages
    /\ currentPage' = d.currentPage
    /\ done' = d.done
    /\ dlast' = [op |-> op, statusRan |-> d.statusRan, focusCalls |-> d.focusCalls,
                 placeholders |-> d.placeholders, first |-> d.first]

DialogFrame == UNCHANGED <<specVars, outlineVars, pageVars, useNewSidebar>>

\* The model emits events while the dialog listens and no process holds it
Listening ==
    /\ session \in {"loading", "ready"}
    /\ act.state # "waiting"
    /\ ~act.closed

\* The user edits the parts once they are loaded
Editing == Listening /\ session = "ready"

\* A dialog that was constructed and initialized, with either sidebar
InitDialog ==
    /\ SpecIdle
    /\ OutlineIdle
    /\ PageIdle
    /\ useNewSidebar \in BOOLEAN
    /\ session = "closed"
    /\ loaded = FALSE
    /\ altered = FALSE
    /\ preventReselection = FALSE
    /\ parts = <<>>
    /\ pages = <<>>
    /\ currentPage = <<>>
    /\ done = TRUE
    /\ act = NoProcess
    /\ dlast = [op |-> "new", statusRan |-> FALSE, focusCalls |-> 0, placeholders |-> 0,
                first |-> <<>>]

\* getSetupProcess, the step that runs at once
Setup ==
    /\ session = "closed"
    /\ session' = "loading"
    /\ act' = NoProcess
    /\ Leaves([Dialog EXCEPT !.loaded = FALSE, !.altered = FALSE, !.parts = <<>>,
                             !.done = FALSE], "setup")
    /\ DialogFrame

\* getSetupProcess, the step that runs when the parts have been loaded
SetupComplete ==
    /\ session = "loading"
    /\ parts # <<>>
    /\ session' = "ready"
    /\ Leaves([PromptAll(Dialog, [i \in 1..Len(parts) |-> parts[i].id])
                  EXCEPT !.loaded = TRUE], "setupComplete")
    /\ UNCHANGED act
    /\ DialogFrame

\* The id of a part that takes the place i (0 to append): ids are names and
\* nothing else, so the smallest one the parts that stay do not use
NewId(i) ==
    LET used == {parts[j].id : j \in (1..Len(parts)) \ {i}}
    IN  CHOOSE n \in 1..(Len(parts) + 1) : n \notin used /\ \A m \in 1..(n - 1) : m \in used

\* A process that completed is forgotten when the next event arrives
Forgotten == IF act.state = "completed" THEN NoProcess ELSE act

\* The model replaces, removes (added = NoPart) or appends (i = 0) a part and
\* emits 'replace'
OnReplacePart(i, added) ==
    /\ Listening
    /\ i # 0 \/ (added # NoPart /\ Len(parts) < MaxParts)
    /\ session = "loading" => i = 0
    /\ LET removed == IF i = 0 THEN NoPart ELSE parts[i]
           model == IF i = 0 THEN Append(parts, added)
                    ELSE IF added = NoPart
                    THEN SubSeq(parts, 1, i - 1) \o SubSeq(parts, i + 1, Len(parts))
                    ELSE [parts EXCEPT ![i] = added]
           first == IF added.kind = "template" /\ added.params # <<>>
                    THEN ParamPage(added.id, getOrderedParameterNames(added)[1])
                    ELSE <<>>
       IN  Leaves(onReplacePart([Dialog EXCEPT !.parts = model, !.first = first],
                                removed, added), "replace")
    /\ act' = Forgotten
    /\ UNCHANGED session
    /\ DialogFrame

\* A template adds a parameter and emits 'add'
OnAddParameter(i, name) ==
    /\ Editing
    /\ parts[i].kind = "template"
    /\ name \notin Range(ParamNames(parts[i]))
    /\ Leaves(onAddParameter([Dialog EXCEPT !.parts = WithParameter(@, parts[i].id, name)],
                             parts[i].id, name), "add")
    /\ act' = Forgotten
    /\ UNCHANGED session
    /\ DialogFrame

\* A template removes a parameter and emits 'remove'
OnRemoveParameter(i, name) ==
    /\ Editing
    /\ name \in Range(ParamNames(parts[i]))
    /\ Leaves(onRemoveParameter([Dialog EXCEPT !.parts = WithoutParameter(@, parts[i].id, name)],
                                parts[i].id, name), "remove")
    /\ act' = Forgotten
    /\ UNCHANGED session
    /\ DialogFrame

\* The value of a parameter is set and the model emits 'change'; the value
\* is kept for required parameters, the only ones the dialog reads it of
OnTransclusionModelChange(i, k, blank) ==
    /\ Editing
    /\ blank = parts[i].params[k].blank \/ isRequired(parts[i], parts[i].params[k].name)
    /\ Leaves(onTransclusionModelChange(
                  [Dialog EXCEPT !.parts = [parts EXCEPT ![i].params[k].blank = blank]]),
              "change")
    /\ act' = Forgotten
    /\ UNCHANGED session
    /\ DialogFrame

\* checkRequiredParameters(): resolved at once, or pending on a confirmation
checkRequiredParameters(pgs, ps) ==
    IF BlankRequired(pgs, ps) # {}
    THEN [NoProcess EXCEPT !.promise = "pending", !.confirm = "open", !.confirms = 1]
    ELSE [NoProcess EXCEPT !.promise = "resolved"]

\* The callback of the confirmation's closed promise: data.action of no data
\* raises a TypeError, which leaves the deferred as it is
ConfirmationClosed(a, data) ==
    IF ~data.given THEN [a EXCEPT !.confirm = "nodata"]
    ELSE IF data.action = "ok" THEN [a EXCEPT !.confirm = "ok", !.promise = "resolved"]
    ELSE [a EXCEPT !.confirm = "declined", !.promise = "rejected"]

\* The callbacks getActionProcess puts on the promise: done writes the
\* transclusion and closes the dialog, always completes the process
WhenSettled(a) ==
    CASE a.promise = "resolved" ->
             [a EXCEPT !.written = TRUE, !.closed = TRUE, !.state = "completed"]
      [] a.promise = "rejected" -> [a EXCEPT !.state = "completed"]
      [] OTHER -> [a EXCEPT !.state = "waiting"]

\* getActionProcess( 'done' ), executed
ExecuteDone ==
    /\ session = "ready"
    /\ done
    /\ act.state # "waiting"
    /\ ~act.closed
    /\ act' = WhenSettled(checkRequiredParameters(pages, parts))
    /\ Leaves(Dialog, "done")
    /\ UNCHANGED session
    /\ DialogFrame

\* The confirmation is closed
CloseConfirmation(data) ==
    /\ act.confirm = "open"
    /\ act' = WhenSettled(ConfirmationClosed(act, data))
    /\ Leaves(Dialog, "confirmationClosed")
    /\ UNCHANGED session
    /\ DialogFrame

\* getTeardownProcess
Teardown ==
    /\ session \in {"loading", "ready"}
    /\ act.confirm # "open"
    /\ session' = "closed"
    /\ Leaves([Dialog EXCEPT !.parts = <<>>, !.pages = <<>>, !.currentPage = <<>>], "teardown")
    /\ UNCHANGED act
    /\ DialogFrame

NextDialog ==
    \/ Setup
    \/ SetupComplete
    \/ \E i \in 0..Len(parts) :
           \E added \in {NoPart, Placeholder(NewId(i))}
                            \cup {Template(NewId(i), shape) : shape \in TemplateShapes} :
               OnReplacePart(i, added)
    \/ \E i \in 1..Len(parts), name \in ParameterNames : OnAddParameter(i, name)
    \/ \E i \in 1..Len(parts), name \in ParameterNames : OnRemoveParameter(i, name)
    \/ \E i \in 1..Len(parts) : \E k \in 1..Len(parts[i].params), blank \in BOOLEAN :
           OnTransclusionModelChange(i, k, blank)
    \/ ExecuteDone
    \/ \E data \in ClosingData : CloseConfirmation(data)
    \/ Teardown

SpecDialog == InitDialog /\ [][NextDialog]_vars

\* The transclusion is empty or holds a template placeholder only
NothingToInsert ==
    parts = <<>> \/ (Len(parts) = 1 /\ parts[1].kind = "placeholder")

\* C13: in every state reached after setApplicableStatus has run, the 'done'
\* action is disabled if the transclusion is empty or only contains a
\* template placeholder.
C13_NotInsertableWhenEmpty ==
    (dlast.statusRan /\ NothingToInsert) => ~done

\* C14: the promise of checkRequiredParameters() is always settled: it is
\* resolved without a confirmation when no page of a required parameter has
\* a blank value; otherwise one confirmation is opened, and the promise is
\* resolved if it is closed with 'ok' and rejected if it is closed in any
\* other way.
C14_PromiseAlwaysSettled ==
    dlast.op \in {"done", "confirmationClosed"} =>
        /\ act.confirms = (IF BlankRequired(pages, parts) = {} THEN 0 ELSE 1)
        /\ act.confirms = 0 => act.promise = "resolved"
        /\ act.promise = "pending" => act.confirm = "open"
        /\ act.confirm = "ok" => act.promise = "resolved"
        /\ act.confirm \in {"declined", "nodata"} => act.promise = "rejected"

\* C19: the 'done' action writes the transclusion and closes the dialog only
\* after checkRequiredParameters() has resolved; if the user declines the
\* confirmation, the document is not modified, the dialog is not closed, and
\* the action process still completes.
C19_WriteOnlyWhenConfirmed ==
    /\ (act.written \/ act.closed) => act.promise = "resolved"
    /\ act.confirm \in {"declined", "nodata"} =>
           ~act.written /\ ~act.closed /\ act.state = "completed"

\* C20: altered is true only if loaded is true; events that occur while the
\* transclusion is loading, the prompted parameters added at the end of
\* setup included, never mark the dialog altered, so that altered is false
\* and 'done' disabled when setup completes.
C20_AlteredOnlyWhenLoaded ==
    /\ altered => loaded
    /\ session = "loading" => ~altered /\ ~done
    /\ dlast.op = "setupComplete" => loaded /\ ~altered /\ ~done

\* Setup has completed and has added the page of a prompted parameter
C20_Witness ==
    /\ dlast.op = "setupComplete"
    /\ \E i \in 1..Len(pages) : Len(pages[i].name) = 2 /\ pages[i].name[2] = "r"

(***************************************************************************)
(* The booklet against the transclusion model                              *)
(***************************************************************************)
\* The names of the pages of the booklet, in their order
PageNames == [i \in 1..Len(pages) |-> pages[i].name]

\* The page class of the part or parameter a page name stands for
KindOf(name) ==
    IF Len(name) = 2 THEN ParameterPageKind(name[2])
    ELSE IF PartById(parts, name[1]).kind = "template" THEN "MWTemplatePage"
    ELSE "MWTemplatePlaceholderPage"

\* C21: after any sequence of replace, add and remove events of a session
\* the booklet holds exactly one page for each template or placeholder part
\* of the model and one for each parameter of each template, named by the
\* id of the part or parameter, and no page of a removed part or parameter.
C21_OnePagePerPartAndParameter ==
    session \in {"loading", "ready"} =>
        /\ Range(PageNames) = Range(Flattened(parts))
        /\ \A i, j \in 1..Len(pages) : pages[i].name = pages[j].name => i = j
        /\ \A i \in 1..Len(pages) : pages[i].kind = KindOf(pages[i].name)

\* A parameter was removed from a template that keeps the pages of a
\* prompted parameter and of its placeholder parameter
C21_Witness ==
    /\ dlast.op = "remove"
    /\ \E i \in 1..Len(parts) :
           /\ ParamPage(parts[i].id, "r") \in Range(PageNames)
           /\ "x" \notin Range(ParamNames(parts[i]))
           /\ parts[i].params # <<>>

(***************************************************************************)
(* Focus changes of onReplacePart                                          *)
(***************************************************************************)
\* The parts a 'replace' event can put at the place i
Replacements(i) ==
    {NoPart, Placeholder(NewId(i))} \cup {Template(NewId(i), shape) : shape \in TemplateShapes}

\* C22: preventReselection is false whenever onReplacePart is not
\* executing, and focusPart is called at most once per onReplacePart (so
\* never by onAddParameter or onRemoveParameter while the parameters of the
\* added template are added).
C22_OneFocusPerReplace ==
    /\ ~preventReselection
    /\ dlast.op = "replace" => dlast.focusCalls <= 1

\* C22 as the code has it: preventReselection is false whenever
\* onReplacePart is not executing; adding the existing and the prompted
\* parameters of the added template calls focusPart never; the placeholder
\* parameter, which onReplacePart adds at most once and after them, is
\* focused by onAddParameter when the dialog is loaded, and onReplacePart
\* itself calls focusPart at most once, so focusPart is called at most
\* twice, and at most once when no placeholder parameter is added.
C22_FocusOnlyAfterParameters ==
    /\ ~preventReselection
    /\ dlast.op = "replace" =>
           /\ dlast.placeholders <= 1
           /\ dlast.focusCalls <= 1 + (IF loaded THEN dlast.placeholders ELSE 0)

\* A template with an existing parameter and a prompted one was added to a
\* loaded dialog without a placeholder parameter, and focusPart was called
\* once
C22_Witness ==
    /\ dlast.op = "replace"
    /\ loaded
    /\ dlast.focusCalls = 1
    /\ \E i \in 1..Len(parts) :
           /\ ParamNames(parts[i]) = <<"x", "r">>
           /\ {ParamPage(parts[i].id, "x"), ParamPage(parts[i].id, "r")} \subseteq Range(PageNames)

\* C23: when the page of the removed part was the active page of a loaded
\* dialog, focus moves to the replacement if one is added in the same
\* event (to its page, or to the page of its first parameter when it has
\* parameters), and to the page closest to the removed page if none is.
C23_FocusFollowsReplacement ==
    [][\A i \in 1..Len(parts) : \A added \in Replacements(i) :
           (/\ loaded
            /\ ~preventReselection
            /\ currentPage = PartPage(parts[i].id)
            /\ OnReplacePart(i, added))
           => currentPage' =
                  IF added = NoPart THEN findClosestPage(pages, PartPage(parts[i].id))
                  ELSE IF getOrderedParameterNames(added) # <<>>
                  THEN ParamPage(added.id, getOrderedParameterNames(added)[1])
                  ELSE PartPage(added.id)]_vars

====
